---- MODULE Spec2Model ----
(***************************************************************************)
(* Model of the array-backed segment tree of segtree_rs:                   *)
(*   src/src/static_segtree.rs  StaticSegtree implementing trait Segtree   *)
(*   src/src/lib.rs             the standalone StaticSegtree (set/try_set, *)
(*                              get/try_get, query/try_query)              *)
(* Both structs have the same four fields and the same from_slice, so one  *)
(* state carries both sets of operations.  The element type T is modelled  *)
(* by finite sequences of integers and merge_fn by concatenation, the      *)
(* non-commutative operator of src/tests/tests.rs.                         *)
(***************************************************************************)
EXTENDS Integers, Sequences, FiniteSets, TLC

\* ------------------------------------------------------------------ bounds
\* Largest length of the slice handed to from_slice.  From length 6 on a
\* query (0..=4 on 6 elements) prepends two nodes to resr, the case in which
\* the order of the arguments of the right-hand merge shows.
MaxN == 6
\* Width of usize in bits (64 on the real targets).
WordBits == 4

RECURSIVE Pow2(_)
Pow2(k) == IF k = 0 THEN 1 ELSE 2 * Pow2(k - 1)

UsizeMax == Pow2(WordBits) - 1
Word == 0..UsizeMax

\* Element values: two distinguishable singletons.  The operations only
\* move elements and hand them to merge_fn, so two values that differ show
\* every loss, repetition or change of order of the elements.
Vals == {<<1>>, <<2>>}
\* Content of a slot of the backing Vec between set_len and its first write.
Uninit == <<-1>>

\* Indices handed to the range queries: every index around the data and the
\* two largest machine words.
QIdx == (0..MaxN) \cup {UsizeMax - 1, UsizeMax}
\* Indices handed to the checked setters.
SIdx == (0..MaxN) \cup {UsizeMax}

VARIABLES
    phase,            \* "new" before from_slice, "built" after it
    tree,             \* StaticSegtree.tree: function 0..2*data_len-1 -> T
    data_len,         \* StaticSegtree.data_len
    neutral_elem,     \* StaticSegtree.neutral_elem
    overflow_checks,  \* build profile: TRUE = arithmetic overflow panics
    data,             \* reference copy of the logical contents (tests.rs)
    updated,          \* some point update has gone through since from_slice
    call              \* the last call: operation, arguments, result, effects

vars == <<phase, tree, data_len, neutral_elem, overflow_checks, data, updated,
          call>>

\* ------------------------------------------------------------ element type
merge_fn(a, b) == a \o b

\* ------------------------------------------------------------- usize maths
\* a + b on usize: panics when overflow checks are on, wraps otherwise.
usize_add(a, b, chk) ==
    IF a + b > UsizeMax
    THEN IF chk THEN [ovf |-> TRUE, v |-> 0]
                ELSE [ovf |-> FALSE, v |-> (a + b) % (UsizeMax + 1)]
    ELSE [ovf |-> FALSE, v |-> a + b]

\* --------------------------------------------------------------- results
Res(kind, val, err) == [kind |-> kind, val |-> val, err |-> err]
SomeOf(v)  == Res("Some", v, "")
NoneRes    == Res("None", <<>>, "")
OkOf(v)    == Res("Ok", v, "")
ErrOf(e)   == Res("Err", <<>>, e)
PanicRes   == Res("Panic", <<>>, "")
ValueOf(v) == Res("Value", v, "")

TreeLen(t) == Cardinality(DOMAIN t)

\* ------------------------------------------------------------- from_slice
RECURSIVE build_loop(_, _)
build_loop(t, i) ==
    IF i < 1 THEN t
    ELSE build_loop([t EXCEPT ![i] = merge_fn(t[2 * i], t[2 * i + 1])], i - 1)

\* Variant: slot 0 is left as set_len left it.
write_sentinel_skip(t, neutral) == t
\* tree[0] = neutral_elem.clone()
write_sentinel(t, neutral) == [t EXCEPT ![0] = neutral]

build_internal(t, len) == build_loop(t, len - 1)

\* The Vec is given its length before any slot is written (set_len): t0 holds
\* Uninit everywhere, the leaves are cloned in, the loop fills n-1 down to 1
\* from slots already written, and slot 0 is written last.
from_slice(original, neutral) ==
    LET n == Len(original) IN
    IF n = 0 THEN <<>>
    ELSE LET t0 == [i \in 0..(2 * n - 1) |-> Uninit]
             t1 == [i \in 0..(2 * n - 1) |->
                        IF i >= n THEN original[i - n + 1] ELSE t0[i]]
             t2 == build_internal(t1, n)
         IN  write_sentinel(t2, neutral)

len(n) == n
is_empty(n) == n = 0

\* ----------------------------------------------------------- set_internal
\* Result of set_internal: the tree, the slots read and written, and whether
\* the bounds-checked getter panicked.
SetOut(t, reads, writes, panic) ==
    [tree |-> t, reads |-> reads, writes |-> writes, panic |-> panic]

\* Variant: the loop body runs once more for crr = 0 (stop after, not
\* before, slot 0).
RECURSIVE set_loop_through_zero(_, _, _, _)
set_loop_through_zero(t, crr, reads, writes) ==
    IF crr = 0
    THEN SetOut([t EXCEPT ![0] = merge_fn(t[0], t[1])], reads \cup {0, 1},
                writes \cup {0}, FALSE)
    ELSE IF (2 * crr + 1) \notin DOMAIN t THEN SetOut(t, reads, writes, TRUE)
    ELSE set_loop_through_zero(
             [t EXCEPT ![crr] = merge_fn(t[2 * crr], t[2 * crr + 1])],
             crr \div 2, reads \cup {2 * crr, 2 * crr + 1}, writes \cup {crr})

\* Variant: only the parent of the leaf is recomputed.
set_loop_one_level(t, crr, reads, writes) ==
    IF crr = 0 THEN SetOut(t, reads, writes, FALSE)
    ELSE SetOut([t EXCEPT ![crr] = merge_fn(t[2 * crr], t[2 * crr + 1])],
                reads \cup {2 * crr, 2 * crr + 1}, writes \cup {crr}, FALSE)

\* while crr != 0 { tree[crr] = merge_fn(tree[crr << 1], tree[crr << 1 | 1]);
\*                  crr >>= 1 }
RECURSIVE set_loop(_, _, _, _)
set_loop(t, crr, reads, writes) ==
    IF crr = 0 THEN SetOut(t, reads, writes, FALSE)
    ELSE IF (2 * crr + 1) \notin DOMAIN t THEN SetOut(t, reads, writes, TRUE)
    ELSE set_loop([t EXCEPT ![crr] = merge_fn(t[2 * crr], t[2 * crr + 1])],
                  crr \div 2, reads \cup {2 * crr, 2 * crr + 1},
                  writes \cup {crr})

\* Variant: the leaf of the next element.
leaf_pos_next(index, n, chk) == usize_add((index + 1) % n, n, chk)
leaf_pos(index, n, chk) == usize_add(index, n, chk)

set_internal(t, n, index, value, chk) ==
    LET pos == leaf_pos(index, n, chk) IN
    IF pos.ovf \/ pos.v \notin DOMAIN t THEN SetOut(t, {}, {}, TRUE)
    ELSE set_loop([t EXCEPT ![pos.v] = value], pos.v \div 2, {}, {pos.v})

\* --------------------------------------------------------- query_internal
QOut(val, reads, panic) == [val |-> val, reads |-> reads, panic |-> panic]

\* Variant: the node is appended to resr instead of prepended.
merge_right_swapped(x, resr) == merge_fn(resr, x)
merge_right(x, resr) == merge_fn(x, resr)

final_step(l, r) == l = r /\ l > 0

RECURSIVE query_loop(_, _, _, _, _, _)
query_loop(t, l, r, resl, resr, reads) ==
    IF l < r
    THEN LET takeL == l % 2 = 1
             takeR == r % 2 = 0
             badL  == takeL /\ l \notin DOMAIN t
             badR  == takeR /\ r \notin DOMAIN t
             resl1 == IF takeL THEN merge_fn(resl, t[l]) ELSE resl
             l1    == IF takeL THEN l + 1 ELSE l
             resr1 == IF takeR THEN merge_right(t[r], resr) ELSE resr
             r1    == IF takeR THEN r - 1 ELSE r
             rd    == reads \cup (IF takeL THEN {l} ELSE {})
                            \cup (IF takeR THEN {r} ELSE {})
         IN  IF badL \/ badR THEN QOut(<<>>, reads, TRUE)
             ELSE query_loop(t, l1 \div 2, r1 \div 2, resl1, resr1, rd)
    ELSE IF final_step(l, r)
         THEN IF l \notin DOMAIN t THEN QOut(<<>>, reads, TRUE)
              ELSE QOut(merge_fn(merge_fn(resl, t[l]), resr),
                        reads \cup {l}, FALSE)
         ELSE QOut(merge_fn(resl, resr), reads, FALSE)

query_internal(t, n, neutral, l, r, chk) ==
    LET l0 == usize_add(l, n, chk)
        r0 == usize_add(r, n, chk)
    IN  IF l0.ovf \/ r0.ovf THEN QOut(<<>>, {}, TRUE)
        ELSE query_loop(t, l0.v, r0.v, neutral, neutral, {})

\* ---------------------------------------------------- bounds_to_inclusive
Included(x) == [k |-> "Included", x |-> x]
Excluded(x) == [k |-> "Excluded", x |-> x]
Unbounded   == [k |-> "Unbounded", x |-> 0]
RangeOf(sb, eb) == [s |-> sb, e |-> eb]

bounds_to_inclusive(range, min, max) ==
    [start |-> CASE range.s.k = "Included"  -> range.s.x
                 [] range.s.k = "Excluded"  -> range.s.x + 1
                 [] range.s.k = "Unbounded" -> min,
     end   |-> CASE range.e.k = "Included"  -> range.e.x
                 [] range.e.k = "Excluded"  -> range.e.x - 1
                 [] range.e.k = "Unbounded" -> max]

\* Range specifications handed to the trait's query: closed l..=r over QIdx,
\* half-open l..r, open-start, and the forms with an unbounded end.  The
\* exclusive forms stay where the conversion needs no arithmetic outside the
\* machine word.
Ranges ==
    {RangeOf(Included(s), Included(e)) : s \in QIdx, e \in QIdx}
    \cup {RangeOf(Included(s), Excluded(e)) : s \in 0..MaxN, e \in 1..(MaxN + 1)}
    \cup {RangeOf(Excluded(s), Included(e)) : s \in 0..MaxN, e \in 0..MaxN}
    \cup {RangeOf(Unbounded, Included(e)) : e \in 0..MaxN}
    \cup {RangeOf(Unbounded, Excluded(e)) : e \in 1..(MaxN + 1)}
    \cup {RangeOf(Included(s), Unbounded) : s \in 0..MaxN}
    \cup {RangeOf(Unbounded, Unbounded)}

\* ------------------------------------- trait Segtree for StaticSegtree
\* Result of an operation: what it returns, the tree it leaves, the slots
\* of the backing array it read and wrote.
OpOut(res, t, reads, writes) ==
    [res |-> res, tree |-> t, reads |-> reads, writes |-> writes]

set_guard(index, n) == index >= n

set(t, n, index, value, chk) ==
    IF set_guard(index, n) THEN OpOut(NoneRes, t, {}, {})
    ELSE LET o == set_internal(t, n, index, value, chk) IN
         OpOut(IF o.panic THEN PanicRes ELSE SomeOf(<<>>),
               o.tree, o.reads, o.writes)

set_unchecked(t, n, index, value, chk) ==
    LET o == set_internal(t, n, index, value, chk) IN
    OpOut(ValueOf(<<>>), o.tree, o.reads, o.writes)

get(t, n, index, chk) ==
    LET pos == usize_add(index, n, chk) IN
    IF pos.ovf THEN OpOut(PanicRes, t, {}, {})
    ELSE IF pos.v \in DOMAIN t THEN OpOut(SomeOf(t[pos.v]), t, {pos.v}, {})
    ELSE OpOut(NoneRes, t, {}, {})

get_unchecked(t, n, index, chk) ==
    LET pos == usize_add(index, n, chk) IN
    OpOut(ValueOf(t[pos.v]), t, {pos.v}, {})

\* Variant: end > data_len.
query_guard_strict(e, n) == e > n
query_guard(e, n) == e >= n

query(t, n, neutral, range, chk) ==
    LET rg == bounds_to_inclusive(range, 0, n) IN
    IF query_guard(rg.end, n) THEN OpOut(NoneRes, t, {}, {})
    ELSE LET o == query_internal(t, n, neutral, rg.start, rg.end, chk) IN
         OpOut(IF o.panic THEN PanicRes ELSE SomeOf(o.val), t, o.reads, {})

query_unchecked(t, n, neutral, range, chk) ==
    LET rg == bounds_to_inclusive(range, 0, n)
        o  == query_internal(t, n, neutral, rg.start, rg.end, chk)
    IN  OpOut(ValueOf(o.val), t, o.reads, {})

\* ------------------------------------------- lib.rs: the standalone struct
lib_set(t, n, index, value, chk) ==
    LET crr == usize_add(index, n, chk) IN
    IF crr.ovf \/ crr.v \notin DOMAIN t THEN OpOut(PanicRes, t, {}, {})
    ELSE LET o == set_loop([t EXCEPT ![crr.v] = value], crr.v \div 2,
                           {}, {crr.v})
         IN  OpOut(IF o.panic THEN PanicRes ELSE ValueOf(<<>>),
                   o.tree, o.reads, o.writes)

try_set(t, n, index, value, chk) ==
    IF index >= n THEN OpOut(ErrOf("IndexOutOfBounds"), t, {}, {})
    ELSE LET o == lib_set(t, n, index, value, chk) IN
         OpOut(IF o.res.kind = "Panic" THEN PanicRes ELSE OkOf(<<>>),
               o.tree, o.reads, o.writes)

lib_get(t, n, index, chk) ==
    LET pos == usize_add(index, n, chk) IN
    IF pos.ovf \/ pos.v \notin DOMAIN t THEN OpOut(PanicRes, t, {}, {})
    ELSE OpOut(ValueOf(t[pos.v]), t, {pos.v}, {})

try_get(t, n, index, chk) ==
    IF index >= n THEN OpOut(ErrOf("IndexOutOfBounds"), t, {}, {})
    ELSE LET o == lib_get(t, n, index, chk) IN
         OpOut(IF o.res.kind = "Panic" THEN PanicRes ELSE OkOf(o.res.val),
               t, o.reads, {})

lib_query(t, n, neutral, l, r, chk) ==
    LET o == query_internal(t, n, neutral, l, r, chk) IN
    OpOut(IF o.panic THEN PanicRes ELSE ValueOf(o.val), t, o.reads, {})

try_query(t, n, neutral, l, r, chk) ==
    IF l > r THEN OpOut(ErrOf("InvalidRange"), t, {}, {})
    ELSE IF r >= n THEN OpOut(ErrOf("RangeOutOfBounds"), t, {}, {})
    ELSE IF l = r
         THEN LET o == lib_get(t, n, l, chk) IN
              OpOut(IF o.res.kind = "Panic" THEN PanicRes ELSE OkOf(o.res.val),
                    t, o.reads, {})
         ELSE LET o == lib_query(t, n, neutral, l, r, chk) IN
              OpOut(IF o.res.kind = "Panic" THEN PanicRes ELSE OkOf(o.res.val),
                    t, o.reads, {})

\* ------------------------------------------------------------------ state
NoRange == RangeOf(Unbounded, Unbounded)

\* The record of a call: its arguments (those the operation does not take
\* are left at 0 / <<>> / NoRange), its result, the tree before it, and the
\* slots it read and wrote.
Call(op, index, value, range, l, r, o, before) ==
    [op |-> op, index |-> index, value |-> value, range |-> range,
     l |-> l, r |-> r, res |-> o.res, pre |-> before,
     reads |-> o.reads, writes |-> o.writes]

NoOut == OpOut(ValueOf(<<>>), <<>>, {}, {})
NoCall == Call("None", 0, <<>>, NoRange, 0, 0, NoOut, <<>>)

\* The caller holds no result: every operation runs to completion and
\* returns before the caller makes its next call.
Idle == call.op = "None"

Originals == UNION {[1..n -> Vals] : n \in 0..MaxN}

Init ==
    /\ phase = "new"
    /\ tree = <<>>
    /\ data_len = 0
    /\ neutral_elem = <<>>
    /\ overflow_checks \in BOOLEAN
    /\ data = <<>>
    /\ updated = FALSE
    /\ call = NoCall

FromSlice ==
    /\ phase = "new"
    /\ \E original \in Originals :
         /\ tree' = from_slice(original, <<>>)
         /\ data_len' = Len(original)
         /\ data' = original
    /\ neutral_elem' = <<>>
    /\ phase' = "built"
    /\ call' = Call("FromSlice", 0, <<>>, NoRange, 0, 0, NoOut, <<>>)
    /\ UNCHANGED <<overflow_checks, updated>>

\* The reference copy after a write of value at index that went through.
Succeeded(res) == res.kind \in {"Some", "Ok", "Value"}

Written(index, value, o) ==
    IF Succeeded(o.res) THEN [data EXCEPT ![index + 1] = value] ELSE data

Set ==
    /\ phase = "built"
    /\ Idle
    /\ \E index \in SIdx, value \in Vals :
         LET o == set(tree, data_len, index, value, overflow_checks) IN
         /\ tree' = o.tree
         /\ data' = Written(index, value, o)
         /\ updated' = (updated \/ Succeeded(o.res))
         /\ call' = Call("Set", index, value, NoRange, 0, 0, o, tree)
    /\ UNCHANGED <<phase, data_len, neutral_elem, overflow_checks>>

\* set_unchecked: its caller has verified index < data_len.
SetUnchecked ==
    /\ phase = "built"
    /\ Idle
    /\ \E index \in 0..(data_len - 1), value \in Vals :
         LET o == set_unchecked(tree, data_len, index, value, overflow_checks) IN
         /\ tree' = o.tree
         /\ data' = Written(index, value, o)
         /\ updated' = (updated \/ Succeeded(o.res))
         /\ call' = Call("SetUnchecked", index, value, NoRange, 0, 0, o, tree)
    /\ UNCHANGED <<phase, data_len, neutral_elem, overflow_checks>>

Get ==
    /\ phase = "built"
    /\ Idle
    /\ \E index \in Word :
         LET o == get(tree, data_len, index, overflow_checks) IN
         /\ tree' = o.tree
         /\ call' = Call("Get", index, <<>>, NoRange, 0, 0, o, tree)
    /\ UNCHANGED <<phase, data_len, neutral_elem, overflow_checks, data,
                   updated>>

\* get_unchecked: its caller has verified index < data_len.
GetUnchecked ==
    /\ phase = "built"
    /\ Idle
    /\ \E index \in 0..(data_len - 1) :
         LET o == get_unchecked(tree, data_len, index, overflow_checks) IN
         /\ tree' = o.tree
         /\ call' = Call("GetUnchecked", index, <<>>, NoRange, 0, 0, o, tree)
    /\ UNCHANGED <<phase, data_len, neutral_elem, overflow_checks, data,
                   updated>>

Query ==
    /\ phase = "built"
    /\ Idle
    /\ \E range \in Ranges :
         LET o  == query(tree, data_len, neutral_elem, range, overflow_checks)
             rg == bounds_to_inclusive(range, 0, data_len)
         IN  /\ tree' = o.tree
             /\ call' = Call("Query", 0, <<>>, range, rg.start, rg.end, o, tree)
    /\ UNCHANGED <<phase, data_len, neutral_elem, overflow_checks, data,
                   updated>>

\* query_unchecked: its caller has verified that the range lies in the data.
QueryUnchecked ==
    /\ phase = "built"
    /\ Idle
    /\ \E range \in Ranges :
         LET rg == bounds_to_inclusive(range, 0, data_len) IN
         /\ rg.start <= rg.end
         /\ rg.end < data_len
         /\ LET o == query_unchecked(tree, data_len, neutral_elem, range,
                                     overflow_checks)
            IN  /\ tree' = o.tree
                /\ call' = Call("QueryUnchecked", 0, <<>>, range,
                                rg.start, rg.end, o, tree)
    /\ UNCHANGED <<phase, data_len, neutral_elem, overflow_checks, data,
                   updated>>

\* lib.rs set, get and query index the Vec directly; they are called the way
\* tests.rs calls them, with index < data_len and l <= r < data_len.
LibSet ==
    /\ phase = "built"
    /\ Idle
    /\ \E index \in 0..(data_len - 1), value \in Vals :
         LET o == lib_set(tree, data_len, index, value, overflow_checks) IN
         /\ tree' = o.tree
         /\ data' = Written(index, value, o)
         /\ updated' = (updated \/ Succeeded(o.res))
         /\ call' = Call("LibSet", index, value, NoRange, 0, 0, o, tree)
    /\ UNCHANGED <<phase, data_len, neutral_elem, overflow_checks>>

LibGet ==
    /\ phase = "built"
    /\ Idle
    /\ \E index \in 0..(data_len - 1) :
         LET o == lib_get(tree, data_len, index, overflow_checks) IN
         /\ tree' = o.tree
         /\ call' = Call("LibGet", index, <<>>, NoRange, 0, 0, o, tree)
    /\ UNCHANGED <<phase, data_len, neutral_elem, overflow_checks, data,
                   updated>>

LibQuery ==
    /\ phase = "built"
    /\ Idle
    /\ \E l \in 0..(data_len - 1) : \E r \in l..(data_len - 1) :
         LET o == lib_query(tree, data_len, neutral_elem, l, r,
                            overflow_checks)
         IN  /\ tree' = o.tree
             /\ call' = Call("LibQuery", 0, <<>>, NoRange, l, r, o, tree)
    /\ UNCHANGED <<phase, data_len, neutral_elem, overflow_checks, data,
                   updated>>

TrySet ==
    /\ phase = "built"
    /\ Idle
    /\ \E index \in SIdx, value \in Vals :
         LET o == try_set(tree, data_len, index, value, overflow_checks) IN
         /\ tree' = o.tree
         /\ data' = Written(index, value, o)
         /\ updated' = (updated \/ Succeeded(o.res))
         /\ call' = Call("TrySet", index, value, NoRange, 0, 0, o, tree)
    /\ UNCHANGED <<phase, data_len, neutral_elem, overflow_checks>>

TryGet ==
    /\ phase = "built"
    /\ Idle
    /\ \E index \in Word :
         LET o == try_get(tree, data_len, index, overflow_checks) IN
         /\ tree' = o.tree
         /\ call' = Call("TryGet", index, <<>>, NoRange, 0, 0, o, tree)
    /\ UNCHANGED <<phase, data_len, neutral_elem, overflow_checks, data,
                   updated>>

TryQuery ==
    /\ phase = "built"
    /\ Idle
    /\ \E l \in QIdx, r \in QIdx :
         LET o == try_query(tree, data_len, neutral_elem, l, r,
                            overflow_checks)
         IN  /\ tree' = o.tree
             /\ call' = Call("TryQuery", 0, <<>>, NoRange, l, r, o, tree)
    /\ UNCHANGED <<phase, data_len, neutral_elem, overflow_checks, data,
                   updated>>

\* The caller takes the result of the call and regains control.
Resume ==
    /\ ~Idle
    /\ call' = NoCall
    /\ UNCHANGED <<phase, tree, data_len, neutral_elem, overflow_checks, data,
                   updated>>

Next ==
    \/ FromSlice
    \/ Resume
    \/ Set
    \/ SetUnchecked
    \/ Get
    \/ GetUnchecked
    \/ Query
    \/ QueryUnchecked
    \/ LibSet
    \/ LibGet
    \/ LibQuery
    \/ TrySet
    \/ TryGet
    \/ TryQuery

Spec == Init /\ [][Next]_vars

\* ================================================================= claims
\* The reference of tests.rs: the left-to-right fold of merge_fn over
\* d[l..=r] (0-based), starting from acc.
RECURSIVE FoldLeft(_, _, _, _)
FoldLeft(acc, d, l, r) ==
    IF l > r THEN acc ELSE FoldLeft(merge_fn(acc, d[l + 1]), d, l + 1, r)

Built == phase = "built"
SetOps == {"Set", "SetUnchecked", "LibSet", "TrySet"}
QueryOps == {"Query", "QueryUnchecked", "LibQuery", "TryQuery"}
\* The call was handed a closed interval l..=r as it stands.
ClosedForm ==
    \/ call.op \in {"LibQuery", "TryQuery"}
    \/ /\ call.op \in {"Query", "QueryUnchecked"}
       /\ call.range.s.k = "Included"
       /\ call.range.e.k = "Included"
\* The failure value of a checked operation.
IsError(res) == res.kind \in {"None", "Err"}

\* Slots floor(pos / 2^k), k >= 1, that are >= 1.
Ancestors(pos) == {a \in 1..pos : \E k \in 1..WordBits : a = pos \div Pow2(k)}

RECURSIVE CeilLog2From(_, _)
CeilLog2From(n, k) == IF Pow2(k) >= n THEN k ELSE CeilLog2From(n, k + 1)
CeilLog2(n) == CeilLog2From(n, 0)

\* C1: a range query on a closed interval 0 <= l <= r < data_len returns
\* the left-to-right fold of concatenation over the current contents
\* data[l..=r], whatever data_len, the initial sequence and the updates.
C1_QueryIsFold ==
    (Built /\ call.op \in QueryOps /\ ClosedForm
        /\ call.l <= call.r /\ call.r < data_len)
    => /\ Succeeded(call.res)
       /\ call.res.val = FoldLeft(neutral_elem, data, call.l, call.r)

C1_Witness ==
    /\ Built /\ updated /\ data_len = 6
    /\ call.op = "Query" /\ ClosedForm
    /\ call.l = 0 /\ call.r = 4
    /\ call.reads = {3, 4, 10}
    /\ call.res = SomeOf(<<1, 2, 1, 1, 2>>)

\* C2: after from_slice on a non-empty sequence and any checked or valid
\* set call, every internal node is the merge of its children, every leaf
\* holds the current element, and the array keeps length 2 * data_len with
\* data_len the length of the original sequence.
C2_TreeInvariant ==
    (Built /\ Len(data) >= 1)
    => /\ data_len = Len(data)
       /\ DOMAIN tree = 0..(2 * data_len - 1)
       /\ TreeLen(tree) = 2 * data_len
       /\ \A i \in 1..(data_len - 1) :
            tree[i] = merge_fn(tree[2 * i], tree[2 * i + 1])
       /\ \A i \in 0..(data_len - 1) : tree[data_len + i] = data[i + 1]

C2_Witness ==
    /\ Built /\ data_len = 5
    /\ call.op = "Set" /\ call.res.kind = "Some"
    /\ call.index = 4
    /\ tree[1] # call.pre[1]
    /\ tree[2] # call.pre[2]

\* C3 (as claimed): the trait's checked query, handed a closed interval
\* with l > r, reports a failure and returns no aggregate value.
C3_InvalidRangeReported ==
    (Built /\ call.op = "Query" /\ ClosedForm
        /\ call.range.s.x > call.range.e.x)
    => IsError(call.res)

\* C4 (as claimed): a checked call with index >= data_len, r >= data_len or
\* l > r returns its error value and leaves the structure as it was.
BadInput ==
    \/ call.op \in {"Get", "Set", "TryGet", "TrySet"}
         /\ call.index >= data_len
    \/ call.op = "TryQuery" /\ (call.l > call.r \/ call.r >= data_len)
    \/ call.op = "Query" /\ ClosedForm
         /\ (call.l > call.r \/ call.r >= data_len)

C4_FailureLeavesUnchanged ==
    (Built /\ BadInput)
    => /\ IsError(call.res)
       /\ tree = call.pre
       /\ call.writes = {}

\* C5 (as claimed): for every index of the machine word the trait's checked
\* get returns the leaf of element index when index < data_len and reports
\* the failure when index >= data_len.
C5_GetChecked ==
    (Built /\ call.op = "Get")
    => IF call.index < data_len
       THEN call.res = SomeOf(data[call.index + 1])
       ELSE call.res = NoneRes

C7_SetThenGet ==
    (Built /\ call.op \in SetOps /\ Succeeded(call.res))
    => \A j \in 0..(data_len - 1) :
         LET before == get(call.pre, data_len, j, overflow_checks).res
             after  == IF j = call.index THEN SomeOf(call.value) ELSE before
         IN  /\ before.kind = "Some"
             /\ get(tree, data_len, j, overflow_checks).res = after
             /\ lib_get(tree, data_len, j, overflow_checks).res
                  = ValueOf(after.val)
             /\ try_get(tree, data_len, j, overflow_checks).res
                  = OkOf(after.val)

C7_Witness ==
    /\ Built /\ data_len = 5
    /\ call.op = "Set" /\ call.res.kind = "Some"
    /\ call.index = 2 /\ call.value = <<2>>
    /\ call.pre[data_len + 2] = <<1>>

\* C8: a set that went through writes the leaf index + data_len and its
\* ancestors down to slot 1, at most ceil(log2(data_len)) of them, and no
\* other slot: slot 0, the other leaves and the other nodes stay as they
\* were.
C8_SetFrame ==
    (Built /\ call.op \in SetOps /\ Succeeded(call.res))
    => LET pos == call.index + data_len IN
       /\ call.writes = {pos} \cup Ancestors(pos)
       /\ Cardinality(Ancestors(pos)) <= CeilLog2(data_len)
       /\ 0 \notin call.writes
       /\ DOMAIN tree = DOMAIN call.pre
       /\ \A i \in DOMAIN tree :
            i \notin ({pos} \cup Ancestors(pos)) => tree[i] = call.pre[i]

C8_Witness ==
    /\ Built /\ data_len = 5
    /\ call.op = "LibSet" /\ Succeeded(call.res)
    /\ call.index = 3
    /\ call.writes = {8, 4, 2, 1}
    /\ tree[1] # call.pre[1]

\* C9: for data_len >= 1 slot 0 holds the neutral element; a valid set
\* neither reads nor writes slot 0; a query on 0 <= l <= r < data_len reads
\* only slots 1..2*data_len-1, never panics, and returns the same value
\* whatever slot 0 holds.
C9_SentinelUntouched ==
    (Built /\ data_len >= 1)
    => /\ tree[0] = neutral_elem
       /\ (call.op \in SetOps /\ call.index < data_len)
            => 0 \notin (call.reads \cup call.writes)
       /\ (call.op \in QueryOps /\ call.l <= call.r /\ call.r < data_len)
            => /\ call.reads \subseteq 1..(2 * data_len - 1)
               /\ call.reads # {}
               /\ call.res.kind # "Panic"
               /\ call.res.val
                    = query_internal([call.pre EXCEPT ![0] = Uninit],
                                     data_len, neutral_elem, call.l, call.r,
                                     overflow_checks).val

C9_Witness ==
    /\ Built /\ updated /\ data_len = 5
    /\ call.op = "TryQuery" /\ call.l = 0 /\ call.r = 4
    /\ call.reads = {3, 4, 5}
    /\ call.res.kind = "Ok"

\* C10 (as claimed): on a non-empty structure the trait's checked query of
\* a range with an unbounded upper end (.. or l.. with l < data_len) is
\* taken as [l, data_len - 1] and returns the fold of data[l..=data_len-1].
C10_UnboundedEnd ==
    (Built /\ data_len >= 1 /\ call.op = "Query"
        /\ call.range.e.k = "Unbounded"
        /\ (call.range.s.k = "Unbounded"
              \/ (call.range.s.k = "Included" /\ call.range.s.x < data_len)))
    => /\ call.r = data_len - 1
       /\ call.res
            = SomeOf(FoldLeft(neutral_elem, data, call.l, data_len - 1))

====
